---- MODULE Spec2Model ----
(***************************************************************************)
(* A model of twrpdtgen/device_tree.py: the construction of a DeviceTree   *)
(* (discovery of the property file, of recovery.fstab and of the init      *)
(* scripts inside an unpacked image) and DeviceTree.dump_to_folder (the    *)
(* generation of the output tree and of its git repository).               *)
(*                                                                         *)
(* A path is a sequence of path components; the file system is one         *)
(* function from the existing paths to their nodes.                        *)
(***************************************************************************)
EXTENDS Integers, Sequences, FiniteSets, TLC

VARIABLES
    fs,               \* the file system: path -> node
    fs0,              \* the file system as it was before the first step
    repos,            \* git repositories: working directory -> repository
    gitconfig,        \* the user's global git configuration (user.name, user.email)
    image,            \* per DeviceTree: the image path given to __init__
    unpacked,         \* per DeviceTree: what AIKManager.unpackimg returns for the image
    props_device,     \* per DeviceTree: what DeviceInfo derives from the image's props
    args,             \* per DeviceTree: its caller's dump_to_folder calls (arguments, how many)
    pc,               \* per DeviceTree: the position in __init__ / dump_to_folder
    error,            \* per DeviceTree: the exception that ended it ("" when none)
    image_info,       \* self.image_info
    ramdisk_path,     \* ramdisk_path of __init__
    search_locations, \* search_locations of __init__
    build_prop,       \* self.build_prop: the files import_props was called with, in order
    build_prop_found, \* build_prop_found of __init__
    logged,           \* the locations listed by the failure report of __init__
    device_info,      \* self.device_info
    fstab,            \* self.fstab: the file the Fstab was generated from
    init_rcs,         \* self.init_rcs
    device_tree_folder, \* device_tree_folder of dump_to_folder
    git,              \* the git argument of the running dump_to_folder
    idx,              \* the loop position inside the current step of dump_to_folder
    git_identity,     \* (git_global_email, git_global_name) as dump_to_folder read them
    calls,            \* per DeviceTree: dump_to_folder calls started so far
    stale             \* files other programs added to the output tree so far

vars == << fs, fs0, repos, gitconfig, image, unpacked, props_device, args, pc, error,
           image_info, ramdisk_path, search_locations, build_prop,
           build_prop_found, logged, device_info, fstab, init_rcs,
           device_tree_folder, git, idx, git_identity, calls, stale >>

envVars == << fs0, gitconfig, image, unpacked, props_device, args >>
ctorVars == << image_info, ramdisk_path, search_locations, build_prop,
               build_prop_found, logged, device_info, fstab, init_rcs >>
dumpVars == << device_tree_folder, git, idx, git_identity, calls >>

(***************************************************************************)
(* Bounds of the model.                                                    *)
(***************************************************************************)
MaxFiles == 2     \* files present in the unpacked image area (construction)
MaxScripts == 2   \* directory entries present in the init script directories
MaxRuns == 2      \* dump_to_folder calls per DeviceTree
MaxStale == 1     \* files added to the output tree by other programs

Procs == {1, 2}

\* Python's None, for a path-valued and for a string-valued field.
None == << "<None>" >>
NoneStr == "<None>"
\* An unset value of the git configuration.
Unset == ""

(***************************************************************************)
(* pathlib                                                                 *)
(***************************************************************************)
Parent(p) == IF Len(p) = 0 THEN p ELSE SubSeq(p, 1, Len(p) - 1)
Name(p) == IF Len(p) = 0 THEN "" ELSE p[Len(p)]
IsPrefix(p, q) == Len(p) <= Len(q) /\ SubSeq(q, 1, Len(p)) = p
Ancestors(p) == { SubSeq(p, 1, k) : k \in 0..(Len(p) - 1) }
EndsWith(s, suffix) ==
    /\ Len(s) >= Len(suffix)
    /\ SubSeq(s, Len(s) - Len(suffix) + 1, Len(s)) = suffix

exists(f, p) == p \in DOMAIN f
is_file(f, p) == p \in DOMAIN f /\ f[p].kind = "file"
is_dir(f, p) == p \in DOMAIN f /\ f[p].kind = "dir"

DirNode == [kind |-> "dir", content |-> << >>, mode |-> 493, locked |-> FALSE]
FileNode(c) == [kind |-> "file", content |-> c, mode |-> 420, locked |-> FALSE]
Restrict(f, S) == [q \in S |-> f[q]]

(***************************************************************************)
(* The candidate lists.                                                    *)
(***************************************************************************)
BUILDPROP_LOCATIONS ==
    << << "default.prop" >>, << "prop.default" >>,
       << "system", "build.prop" >>, << "vendor", "build.prop" >>,
       << "system", "etc", "build.prop" >>, << "vendor", "etc", "build.prop" >> >>

extended_locations ==
    << << "system", "system", "build.prop" >>,
       << "system", "build.prop" >>,
       << "vendor", "build.prop" >>,
       << "vendor_boot", "ramdisk", "default.prop" >>,
       << "vendor_boot", "ramdisk", "prop.default" >>,
       << "vendor_boot", "ramdisk", "build.prop" >>,
       << "vendor_boot", "ramdisk", "system", "build.prop" >>,
       << "vendor_boot", "ramdisk", "vendor", "build.prop" >>,
       << "system", "etc", "build.prop" >>,
       << "vendor", "etc", "build.prop" >>,
       << "product", "build.prop" >>,
       << "system_ext", "build.prop" >>,
       << "odm", "build.prop" >>,
       << "boot", "ramdisk", "default.prop" >>,
       << "boot", "ramdisk", "prop.default" >>,
       << "recovery", "ramdisk", "default.prop" >>,
       << "recovery", "ramdisk", "prop.default" >> >>

Under(base, rels) == [i \in 1..Len(rels) |-> base \o rels[i]]

possible_dump_paths(base_path) ==
    << Parent(base_path), Parent(Parent(base_path)),
       Parent(Parent(Parent(base_path))) >>

dump_dir_locations(f, dump_dir) ==
    IF ~exists(f, dump_dir) THEN << >> ELSE Under(dump_dir, extended_locations)

get_extended_buildprop_locations(f, base_path) ==
    LET dumps == possible_dump_paths(base_path)
    IN  Under(base_path, BUILDPROP_LOCATIONS)
            \o dump_dir_locations(f, dumps[1])
            \o dump_dir_locations(f, dumps[2])
            \o dump_dir_locations(f, dumps[3])

\* A variant of FSTAB_LOCATIONS with a fourth candidate, at the ramdisk root.
FSTAB_LOCATIONS_with_root ==
    << << "etc", "recovery.fstab" >>,
       << "system", "etc", "recovery.fstab" >>,
       << "vendor", "etc", "recovery.fstab" >>,
       << "recovery.fstab" >> >>

FSTAB_LOCATIONS ==
    << << "etc", "recovery.fstab" >>,
       << "system", "etc", "recovery.fstab" >>,
       << "vendor", "etc", "recovery.fstab" >> >>

INIT_RC_LOCATIONS ==
    << << >>, << "system", "etc", "init" >>, << "vendor", "etc", "init" >> >>

(***************************************************************************)
(* DeviceTree.__init__                                                     *)
(***************************************************************************)
Fail(p, msg) ==
    /\ pc' = [pc EXCEPT ![p] = "failed"]
    /\ error' = [error EXCEPT ![p] = msg]

\* self.image.is_file(), then AIKManager().unpackimg(image)
CheckImage(p) ==
    /\ pc[p] = "start"
    /\ IF ~is_file(fs, image[p])
       THEN /\ Fail(p, "Specified file doesn't exist")
            /\ UNCHANGED image_info
       ELSE /\ image_info' = [image_info EXCEPT ![p] = unpacked[p]]
            /\ pc' = [pc EXCEPT ![p] = "ramdisk"]
            /\ UNCHANGED error
    /\ UNCHANGED << fs, repos, envVars, ramdisk_path, search_locations,
                    build_prop, build_prop_found, logged, device_info, fstab,
                    init_rcs, dumpVars, stale >>

select_ramdisk(f, info) ==
    IF info.ramdisk # None /\ is_dir(f, info.ramdisk) THEN info.ramdisk
    ELSE IF info.vendor_ramdisk # None /\ is_dir(f, info.vendor_ramdisk)
         THEN info.vendor_ramdisk
    ELSE None

SelectRamdisk(p) ==
    /\ pc[p] = "ramdisk"
    /\ LET r == select_ramdisk(fs, image_info[p])
       IN  IF r = None
           THEN /\ Fail(p, "No valid ramdisk found (neither ramdisk nor vendor_ramdisk)")
                /\ UNCHANGED ramdisk_path
           ELSE /\ ramdisk_path' = [ramdisk_path EXCEPT ![p] = r]
                /\ pc' = [pc EXCEPT ![p] = "build_prop"]
                /\ UNCHANGED error
    /\ UNCHANGED << fs, repos, envVars, image_info, search_locations,
                    build_prop, build_prop_found, logged, device_info, fstab,
                    init_rcs, dumpVars, stale >>

\* Variants of the search loop: one that lacks the break after import_props,
\* and one that walks the candidates from the last to the first.
RECURSIVE import_props_no_break(_, _, _)
import_props_no_break(f, locations, i) ==
    IF i > Len(locations) THEN << >>
    ELSE IF ~is_file(f, locations[i]) THEN import_props_no_break(f, locations, i + 1)
    ELSE << locations[i] >> \o import_props_no_break(f, locations, i + 1)

RECURSIVE import_props_reversed(_, _, _)
import_props_reversed(f, locations, i) ==
    IF i > Len(locations) THEN << >>
    ELSE LET k == Len(locations) + 1 - i
         IN  IF ~is_file(f, locations[k]) THEN import_props_reversed(f, locations, i + 1)
             ELSE << locations[k] >>

\* The search loop of __init__ from candidate i on: the files import_props is
\* called with, in order (none, or the one the loop breaks at).
RECURSIVE import_props_loop(_, _, _)
import_props_loop(f, locations, i) ==
    IF i > Len(locations) THEN << >>
    ELSE IF ~is_file(f, locations[i]) THEN import_props_loop(f, locations, i + 1)
    ELSE << locations[i] >>

LocateBuildProp(p) ==
    /\ pc[p] = "build_prop"
    /\ LET locations == get_extended_buildprop_locations(fs, ramdisk_path[p])
           imported == import_props_loop(fs, locations, 1)
       IN  /\ search_locations' = [search_locations EXCEPT ![p] = locations]
           /\ build_prop' = [build_prop EXCEPT ![p] = imported]
           /\ build_prop_found' = [build_prop_found EXCEPT ![p] = imported # << >>]
    /\ pc' = [pc EXCEPT ![p] = "device_info"]
    /\ UNCHANGED << fs, repos, envVars, error, image_info, ramdisk_path, logged,
                    device_info, fstab, init_rcs, dumpVars, stale >>

\* The failure report of the property search, or DeviceInfo(self.build_prop).
MakeDeviceInfo(p) ==
    /\ pc[p] = "device_info"
    /\ IF ~build_prop_found[p]
       THEN /\ logged' = [logged EXCEPT ![p] = search_locations[p]]
            /\ Fail(p, "No build.prop file found in any of the searched locations")
            /\ UNCHANGED device_info
       ELSE /\ device_info' = [device_info EXCEPT ![p] = props_device[p]]
            /\ pc' = [pc EXCEPT ![p] = "fstab"]
            /\ UNCHANGED << error, logged >>
    /\ UNCHANGED << fs, repos, envVars, image_info, ramdisk_path,
                    search_locations, build_prop, build_prop_found, fstab,
                    init_rcs, dumpVars, stale >>

fstab_candidates(base_path) == Under(base_path, FSTAB_LOCATIONS)

RECURSIVE first_fstab(_, _, _)
first_fstab(f, locations, i) ==
    IF i > Len(locations) THEN None
    ELSE IF ~is_file(f, locations[i]) THEN first_fstab(f, locations, i + 1)
    ELSE locations[i]

LocateFstab(p) ==
    /\ pc[p] = "fstab"
    /\ LET found == first_fstab(fs, fstab_candidates(ramdisk_path[p]), 1)
       IN  IF found = None
           THEN /\ Fail(p, "fstab not found")
                /\ UNCHANGED fstab
           ELSE /\ fstab' = [fstab EXCEPT ![p] = found]
                /\ pc' = [pc EXCEPT ![p] = "init_rcs"]
                /\ UNCHANGED error
    /\ UNCHANGED << fs, repos, envVars, image_info, ramdisk_path,
                    search_locations, build_prop, build_prop_found, logged,
                    device_info, init_rcs, dumpVars, stale >>

\* A variant of is_init_rc that does not leave out init.rc.
is_any_rc(name) == EndsWith(name, ".rc")

\* The entries of a directory that __init__ keeps.
is_init_rc(name) == EndsWith(name, ".rc") /\ name # "init.rc"
iterdir(f, d) == { q \in DOMAIN f : Len(q) = Len(d) + 1 /\ Parent(q) = d }
init_rcs_in(f, d) ==
    IF ~is_dir(f, d) THEN {} ELSE { q \in iterdir(f, d) : is_init_rc(Name(q)) }
\* iterdir yields the entries in an order of the file system's choosing.
Orders(S) ==
    { s \in [1..Cardinality(S) -> S] : \A i, j \in DOMAIN s : s[i] = s[j] => i = j }

CollectInitRcs(p) ==
    /\ pc[p] = "init_rcs"
    /\ LET dirs == Under(ramdisk_path[p], INIT_RC_LOCATIONS)
       IN  \E o1 \in Orders(init_rcs_in(fs, dirs[1])),
              o2 \in Orders(init_rcs_in(fs, dirs[2])),
              o3 \in Orders(init_rcs_in(fs, dirs[3])) :
                init_rcs' = [init_rcs EXCEPT ![p] = o1 \o o2 \o o3]
    /\ pc' = [pc EXCEPT ![p] = "constructed"]
    /\ UNCHANGED << fs, repos, envVars, error, image_info, ramdisk_path,
                    search_locations, build_prop, build_prop_found, logged,
                    device_info, fstab, dumpVars, stale >>

(***************************************************************************)
(* The file system calls of dump_to_folder.  Each has the exception it     *)
(* raises in a file system f ("" when it succeeds) and the file system it  *)
(* leaves.                                                                 *)
(***************************************************************************)
\* A variant of rmtree that deletes the directory above p.
rmtree_parent(f, p) ==
    LET under == { q \in DOMAIN f : IsPrefix(Parent(p), q) }
        kept == { q \in under : \E l \in under : f[l].locked /\ IsPrefix(q, l) }
    IN  Restrict(f, (DOMAIN f \ under) \cup kept)

\* shutil.rmtree(p, ignore_errors=True): whatever cannot be deleted stays,
\* with the directories above it.
rmtree(f, p) ==
    LET under == { q \in DOMAIN f : IsPrefix(p, q) }
        kept == { q \in under : \E l \in under : f[l].locked /\ IsPrefix(q, l) }
    IN  Restrict(f, (DOMAIN f \ under) \cup kept)

\* A variant of mkdir_error: Path.mkdir(parents=True, exist_ok=True).
mkdir_error_exist_ok(f, p) ==
    IF exists(f, p) /\ ~is_dir(f, p) THEN "FileExistsError"
    ELSE IF \E a \in Ancestors(p) : exists(f, a) /\ ~is_dir(f, a)
         THEN "NotADirectoryError"
    ELSE ""

\* Path.mkdir(parents=True)
mkdir_error(f, p) ==
    IF exists(f, p) THEN "FileExistsError"
    ELSE IF \E a \in Ancestors(p) : exists(f, a) /\ ~is_dir(f, a)
         THEN "NotADirectoryError"
    ELSE ""
mkdir(f, p) ==
    [q \in DOMAIN f \cup Ancestors(p) \cup {p} |->
        IF q \in DOMAIN f THEN f[q] ELSE DirNode]

\* open(p, "w") and write
write_error(f, p) ==
    IF ~is_dir(f, Parent(p)) THEN "FileNotFoundError"
    ELSE IF is_dir(f, p) THEN "IsADirectoryError"
    ELSE IF exists(f, p) /\ f[p].locked THEN "PermissionError"
    ELSE ""
write_file(f, p, c) ==
    [q \in DOMAIN f \cup {p} |->
        IF q # p THEN f[q]
        ELSE IF exists(f, p) THEN [f[p] EXCEPT !.content = c]
        ELSE FileNode(c)]

\* shutil.copyfile(src, dst)
copyfile_error(f, src, dst) ==
    IF ~is_file(f, src) THEN "FileNotFoundError" ELSE write_error(f, dst)
copyfile(f, src, dst) == write_file(f, dst, f[src].content)

\* os.chmod(p, mode)
chmod_error(f, p) == IF ~exists(f, p) THEN "FileNotFoundError" ELSE ""
chmod(f, p, mode) == [f EXCEPT ![p].mode = mode]

S_IRWXU == 448
S_IRGRP == 32
S_IROTH == 4

\* A variant of surviving_repos: the deletion spares the repositories.
repos_kept(r, f) == r

\* The repositories whose .git directory is still there.
git_dir(w) == w \o << ".git" >>
surviving_repos(r, f) == Restrict(r, { w \in DOMAIN r : exists(f, git_dir(w)) })

(***************************************************************************)
(* DeviceTree.dump_to_folder                                               *)
(***************************************************************************)
\* One file system call of dump_to_folder: it raises, or it leaves file
\* system g and dump_to_folder goes on at next_pc, next_idx.
FsCall(p, err, g, next_pc, next_idx) ==
    IF err # ""
    THEN /\ Fail(p, err)
         /\ UNCHANGED << fs, idx >>
    ELSE /\ fs' = g
         /\ pc' = [pc EXCEPT ![p] = next_pc]
         /\ idx' = [idx EXCEPT ![p] = next_idx]
         /\ UNCHANGED error

prebuilt_path(p) == device_tree_folder[p] \o << "prebuilt" >>
recovery_root_path(p) == device_tree_folder[p] \o << "recovery", "root" >>

\* The call, the three paths and device_tree_folder.is_dir()
DumpBegin(p) ==
    /\ pc[p] \in { "constructed", "done" }
    /\ calls[p] < args[p].times
    /\ \E g \in args[p].git : git' = [git EXCEPT ![p] = g]
    /\ LET folder == args[p].output_path
                        \o << device_info[p].manufacturer, device_info[p].codename >>
       IN  /\ device_tree_folder' = [device_tree_folder EXCEPT ![p] = folder]
           /\ pc' = [pc EXCEPT ![p] = IF is_dir(fs, folder) THEN "rmtree" ELSE "mkdir"]
    /\ calls' = [calls EXCEPT ![p] = @ + 1]
    /\ idx' = [idx EXCEPT ![p] = 1]
    /\ UNCHANGED << fs, repos, envVars, error, ctorVars, git_identity, stale >>

DumpRmtree(p) ==
    /\ pc[p] = "rmtree"
    /\ fs' = rmtree(fs, device_tree_folder[p])
    /\ repos' = surviving_repos(repos, fs')
    /\ pc' = [pc EXCEPT ![p] = "mkdir"]
    /\ UNCHANGED << envVars, error, ctorVars, dumpVars, stale >>

created_folders(p) ==
    << device_tree_folder[p], prebuilt_path(p), recovery_root_path(p) >>

DumpMkdir(p) ==
    /\ pc[p] = "mkdir"
    /\ LET d == created_folders(p)[idx[p]]
       IN  IF idx[p] < Len(created_folders(p))
           THEN FsCall(p, mkdir_error(fs, d), mkdir(fs, d), "mkdir", idx[p] + 1)
           ELSE FsCall(p, mkdir_error(fs, d), mkdir(fs, d), "render", 1)
    /\ UNCHANGED << repos, envVars, ctorVars, device_tree_folder, git,
                    git_identity, calls, stale >>

\* The rendered files: template, out_file, comment_prefix.
TEMPLATES(codename) ==
    << << "Android.bp", "Android.bp", "//" >>,
       << "Android.mk", "Android.mk", "#" >>,
       << "AndroidProducts.mk", "AndroidProducts.mk", "#" >>,
       << "BoardConfig.mk", "BoardConfig.mk", "#" >>,
       << "device.mk", "device.mk", "#" >>,
       << "extract-files.sh", "extract-files.sh", "#" >>,
       << "omni_device.mk", "omni_" \o codename \o ".mk", "#" >>,
       << "README.md", "README.md", "#" >>,
       << "setup-makefiles.sh", "setup-makefiles.sh", "#" >>,
       << "vendorsetup.sh", "vendorsetup.sh", "#" >> >>

\* What render_template writes: a text fixed by the template and its context.
render_template(p, template, comment_prefix) ==
    << "rendered", template, comment_prefix,
       device_info[p].manufacturer, device_info[p].codename >> \o fstab[p]

DumpRender(p) ==
    /\ pc[p] = "render"
    /\ LET all == TEMPLATES(device_info[p].codename)
           t == all[idx[p]]
           out == device_tree_folder[p] \o << t[2] >>
           g == write_file(fs, out, render_template(p, t[1], t[3]))
       IN  IF idx[p] < Len(all)
           THEN FsCall(p, write_error(fs, out), g, "render", idx[p] + 1)
           ELSE FsCall(p, write_error(fs, out), g, "chmod", 1)
    /\ UNCHANGED << repos, envVars, ctorVars, device_tree_folder, git,
                    git_identity, calls, stale >>

EXECUTABLES == << "extract-files.sh", "setup-makefiles.sh" >>

DumpChmod(p) ==
    /\ pc[p] = "chmod"
    /\ LET f == device_tree_folder[p] \o << EXECUTABLES[idx[p]] >>
           g == chmod(fs, f, S_IRWXU + S_IRGRP + S_IROTH)
       IN  IF idx[p] < Len(EXECUTABLES)
           THEN FsCall(p, chmod_error(fs, f), g, "chmod", idx[p] + 1)
           ELSE FsCall(p, chmod_error(fs, f), g, "prebuilt", 1)
    /\ UNCHANGED << repos, envVars, ctorVars, device_tree_folder, git,
                    git_identity, calls, stale >>

\* A variant of PREBUILT that copies the dtbo under the name of the dtb.
PREBUILT_misnamed ==
    << << "kernel", "kernel" >>, << "dt", "dt.img" >>,
       << "dtb", "dtb.img" >>, << "dtbo", "dtb.img" >> >>

\* The binary artifacts: the field of image_info and the name under prebuilt.
PREBUILT ==
    << << "kernel", "kernel" >>, << "dt", "dt.img" >>,
       << "dtb", "dtb.img" >>, << "dtbo", "dtbo.img" >> >>

DumpCopyPrebuilt(p) ==
    /\ pc[p] = "prebuilt"
    /\ LET a == PREBUILT[idx[p]]
           src == image_info[p][a[1]]
           dst == prebuilt_path(p) \o << a[2] >>
           next_pc == IF idx[p] < Len(PREBUILT) THEN "prebuilt" ELSE "fstab_out"
           next_idx == IF idx[p] < Len(PREBUILT) THEN idx[p] + 1 ELSE 1
       IN  IF src = None
           THEN FsCall(p, "", fs, next_pc, next_idx)
           ELSE FsCall(p, copyfile_error(fs, src, dst), copyfile(fs, src, dst),
                       next_pc, next_idx)
    /\ UNCHANGED << repos, envVars, ctorVars, device_tree_folder, git,
                    git_identity, calls, stale >>

\* What self.fstab.format(twrp=True) returns.
fstab_format(p) == << "twrp format of" >> \o fstab[p]

DumpWriteFstab(p) ==
    /\ pc[p] = "fstab_out"
    /\ LET out == device_tree_folder[p] \o << "recovery.fstab" >>
       IN  FsCall(p, write_error(fs, out), write_file(fs, out, fstab_format(p)),
                  "init_rcs_out", 1)
    /\ UNCHANGED << repos, envVars, ctorVars, device_tree_folder, git,
                    git_identity, calls, stale >>

DumpCopyInitRcs(p) ==
    /\ pc[p] = "init_rcs_out"
    /\ idx[p] <= Len(init_rcs[p])
    /\ LET init_rc == init_rcs[p][idx[p]]
           dst == recovery_root_path(p) \o << Name(init_rc) >>
       IN  FsCall(p, copyfile_error(fs, init_rc, dst), copyfile(fs, init_rc, dst),
                  "init_rcs_out", idx[p] + 1)
    /\ UNCHANGED << repos, envVars, ctorVars, device_tree_folder, git,
                    git_identity, calls, stale >>

\* if not git: return device_tree_folder
DumpReturn(p) ==
    /\ pc[p] = "init_rcs_out"
    /\ idx[p] > Len(init_rcs[p])
    /\ pc' = [pc EXCEPT ![p] = IF git[p] THEN "git_init" ELSE "done"]
    /\ UNCHANGED << fs, repos, envVars, error, ctorVars, dumpVars, stale >>

NewRepo == [commits |-> 0, name |-> Unset, email |-> Unset,
            author |-> << Unset, Unset >>]

\* Repo.init(device_tree_folder): an existing repository is opened as it is.
DumpGitInit(p) ==
    /\ pc[p] = "git_init"
    /\ LET w == device_tree_folder[p]
       IN  IF w \in DOMAIN repos
           THEN /\ pc' = [pc EXCEPT ![p] = "git_identity"]
                /\ UNCHANGED << fs, repos, error, idx >>
           ELSE /\ FsCall(p, mkdir_error(fs, git_dir(w)), mkdir(fs, git_dir(w)),
                          "git_identity", 1)
                /\ repos' = IF mkdir_error(fs, git_dir(w)) = ""
                            THEN (w :> NewRepo) @@ repos ELSE repos
    /\ UNCHANGED << envVars, ctorVars, device_tree_folder, git, git_identity,
                    calls, stale >>

FALLBACK_EMAIL == "barezzisebastiano@gmail.com"
FALLBACK_NAME == "Sebastiano Barezzi"

\* config_reader().get_value: the repository's value, else the global one.
config_value(repo, global, key) == IF repo[key] # Unset THEN repo[key] ELSE global[key]

\* The identity dump_to_folder reads: get_value raises when a value is unset,
\* and both are None then.
read_identity(repo, global) ==
    IF config_value(repo, global, "email") = Unset
         \/ config_value(repo, global, "name") = Unset
    THEN << NoneStr, NoneStr >>
    ELSE << config_value(repo, global, "email"), config_value(repo, global, "name") >>

DumpGitIdentity(p) ==
    /\ pc[p] = "git_identity"
    /\ LET w == device_tree_folder[p]
           id == read_identity(repos[w], gitconfig)
       IN  /\ git_identity' = [git_identity EXCEPT ![p] = id]
           /\ IF id[1] = NoneStr \/ id[2] = NoneStr
              THEN repos' = [repos EXCEPT ![w].email = FALLBACK_EMAIL,
                                          ![w].name = FALLBACK_NAME]
              ELSE UNCHANGED repos
    /\ pc' = [pc EXCEPT ![p] = "git_commit"]
    /\ UNCHANGED << fs, envVars, error, ctorVars, device_tree_folder, git, idx,
                    calls, stale >>

\* index.add(["*"]), index.commit(commit_message), return device_tree_folder
DumpGitCommit(p) ==
    /\ pc[p] = "git_commit"
    /\ LET w == device_tree_folder[p]
       IN  repos' = [repos EXCEPT
                ![w].commits = @ + 1,
                ![w].author = << config_value(repos[w], gitconfig, "name"),
                                 config_value(repos[w], gitconfig, "email") >>]
    /\ pc' = [pc EXCEPT ![p] = "done"]
    /\ UNCHANGED << fs, envVars, error, ctorVars, dumpVars, stale >>

(***************************************************************************)
(* Other programs: between two calls of dump_to_folder a file is added to  *)
(* the output tree, or a generated file is overwritten.  The tree is then  *)
(* no longer as dump_to_folder left it: the DeviceTree is back at          *)
(* "constructed", the position of one whose last call's result is gone.    *)
(***************************************************************************)
final_path(p) ==
    args[p].output_path \o << device_info[p].manufacturer, device_info[p].codename >>
StalePaths(folder) ==
    { folder \o << "old.txt" >>, folder \o << "Android.mk" >>,
      folder \o << "prebuilt", "old.img" >>,
      folder \o << "recovery", "root", "old.rc" >> }

AddStale(p) ==
    /\ pc[p] \in { "constructed", "done" }
    /\ calls[p] < args[p].times
    /\ stale < MaxStale
    /\ \E q \in StalePaths(final_path(p)) :
          /\ write_error(fs, q) = ""
          /\ fs' = write_file(fs, q, << "stale" >>)
    /\ stale' = stale + 1
    /\ pc' = [pc EXCEPT ![p] = "constructed"]
    /\ UNCHANGED << repos, envVars, error, ctorVars, dumpVars >>

(***************************************************************************)
(* Initial states.                                                         *)
(***************************************************************************)
NoInfo == [ramdisk |-> None, vendor_ramdisk |-> None,
           kernel |-> None, dt |-> None, dtb |-> None, dtbo |-> None]
NoDevice == [manufacturer |-> NoneStr, codename |-> NoneStr]
NoArgs == [output_path |-> None, git |-> {}, times |-> 0]

\* The subsets of S of at most k elements.
RECURSIVE KSubsets(_, _)
KSubsets(S, k) ==
    IF k = 0 THEN { {} }
    ELSE LET smaller == KSubsets(S, k - 1)
         IN  smaller \cup { s \cup {x} : s \in smaller, x \in S }

SrcContent(q) == << "content of" >> \o q
\* The file system holding the regular files `files' (path -> content) and the
\* directories `dirs', with the directories above them.
MkFs(files, dirs) ==
    LET all == DOMAIN files \cup dirs
        above == UNION { Ancestors(q) : q \in all }
    IN  [q \in all \cup above |->
            IF q \in DOMAIN files /\ q \notin above /\ q \notin dirs
            THEN FileNode(files[q]) ELSE DirNode]
SrcFiles(S) == [q \in S |-> SrcContent(q)]

ProcInit(active) ==
    /\ pc = [p \in Procs |-> IF p \in active THEN "start" ELSE "idle"]
    /\ error = [p \in Procs |-> ""]
    /\ image_info = [p \in Procs |-> NoInfo]
    /\ ramdisk_path = [p \in Procs |-> None]
    /\ search_locations = [p \in Procs |-> << >>]
    /\ build_prop = [p \in Procs |-> << >>]
    /\ build_prop_found = [p \in Procs |-> FALSE]
    /\ logged = [p \in Procs |-> << >>]
    /\ device_info = [p \in Procs |-> NoDevice]
    /\ fstab = [p \in Procs |-> None]
    /\ init_rcs = [p \in Procs |-> << >>]
    /\ device_tree_folder = [p \in Procs |-> None]
    /\ git = [p \in Procs |-> FALSE]
    /\ idx = [p \in Procs |-> 0]
    /\ git_identity = [p \in Procs |-> << NoneStr, NoneStr >>]
    /\ calls = [p \in Procs |-> 0]
    /\ stale = 0

\* The images of the construction runs: what unpackimg returns, and which of
\* the ramdisk paths are directories.
BootImage == << "in", "boot.img" >>
CtorLayouts ==
    { [info |-> [NoInfo EXCEPT !.ramdisk = << "d", "boot", "ramdisk" >>],
       dirs |-> { << "d", "boot", "ramdisk" >> }],
      [info |-> [NoInfo EXCEPT !.ramdisk = << "d", "boot", "ramdisk" >>,
                               !.vendor_ramdisk = << "d", "vendor_boot", "ramdisk" >>],
       dirs |-> { << "d", "vendor_boot", "ramdisk" >> }],
      [info |-> [NoInfo EXCEPT !.ramdisk = << "ramdisk" >>,
                               !.vendor_ramdisk = << "vendor_ramdisk" >>],
       dirs |-> { << "ramdisk" >>, << "vendor_ramdisk" >> }],
      [info |-> [NoInfo EXCEPT !.vendor_ramdisk = << "d", "vendor_boot", "ramdisk" >>],
       dirs |-> { << "d" >> }] }

Range(s) == { s[i] : i \in DOMAIN s }
\* Other places a file may be at: not candidates of any search.
Decoys(r) ==
    { r \o << "build.prop" >>, r \o << "recovery.fstab" >>, r \o << "ueventd.rc" >>,
      Parent(r) \o << "etc", "recovery.fstab" >>,
      Parent(r) \o << "system", "etc", "recovery.fstab" >> }
CtorUniverse(lay) ==
    UNION { Range(get_extended_buildprop_locations(MkFs(<< >>, lay.dirs), r))
                \cup Range(fstab_candidates(r)) \cup Decoys(r) : r \in lay.dirs }

InitCtor ==
    /\ \E lay \in CtorLayouts, present \in BOOLEAN :
         \E S \in (IF present THEN KSubsets(CtorUniverse(lay), MaxFiles) ELSE { {} }) :
            /\ fs = MkFs(SrcFiles(S \cup (IF present THEN { BootImage } ELSE {})),
                         lay.dirs)
            /\ unpacked = [p \in Procs |-> IF p = 1 THEN lay.info ELSE NoInfo]
    /\ repos = << >>
    /\ gitconfig = [name |-> Unset, email |-> Unset]
    /\ image = [p \in Procs |-> IF p = 1 THEN BootImage ELSE None]
    /\ props_device = [p \in Procs |->
          IF p = 1 THEN [manufacturer |-> "m1", codename |-> "c1"] ELSE NoDevice]
    /\ args = [p \in Procs |-> NoArgs]
    /\ fs0 = fs
    /\ ProcInit({1})

NextCtor ==
    \E p \in Procs :
        \/ CheckImage(p)
        \/ SelectRamdisk(p)
        \/ LocateBuildProp(p)
        \/ MakeDeviceInfo(p)
        \/ LocateFstab(p)
        \/ CollectInitRcs(p)

SpecCtor == InitCtor /\ [][NextCtor]_vars

(***************************************************************************)
(* Initial states of the generation runs: one image, whose DeviceTree is   *)
(* constructed and then dumped up to MaxRuns times into out/m1/c1.         *)
(***************************************************************************)
ARTIFACTS == { "kernel", "dt", "dtb", "dtbo" }
WorkDir(p) == IF p = 1 THEN "t1" ELSE "t2"
Ramdisk(p) == << WorkDir(p), "ramdisk" >>
ArtifactPath(p, a) == << WorkDir(p), "split_img", a >>
Info(p, present) ==
    [ramdisk |-> Ramdisk(p), vendor_ramdisk |-> None,
     kernel |-> IF "kernel" \in present THEN ArtifactPath(p, "kernel") ELSE None,
     dt |-> IF "dt" \in present THEN ArtifactPath(p, "dt") ELSE None,
     dtb |-> IF "dtb" \in present THEN ArtifactPath(p, "dtb") ELSE None,
     dtbo |-> IF "dtbo" \in present THEN ArtifactPath(p, "dtbo") ELSE None]

FstabUniverse ==
    Range(fstab_candidates(Ramdisk(1)))
        \cup { Ramdisk(1) \o << "recovery.fstab" >>,
               Parent(Ramdisk(1)) \o << "etc", "recovery.fstab" >> }
\* Entries of the three script directories; an entry named dir.rc is a directory.
ScriptUniverse ==
    { Ramdisk(1) \o d \o << n >> :
        d \in Range(INIT_RC_LOCATIONS),
        n \in { "init.rc", "ueventd.rc", "init.recovery.rc", "sepolicy" } }
        \cup { Ramdisk(1) \o << "dir.rc" >> }
Priors == { "absent", "empty", "stale", "locked", "file" }
GitConfigs == [name : { Unset, "Alice" }, email : { Unset, "alice@example.org" }]

BaseConfig ==
    [fstabs |-> { Ramdisk(1) \o << "etc", "recovery.fstab" >> },
     artifacts |-> { "kernel" },
     scripts |-> { Ramdisk(1) \o << "ueventd.rc" >> },
     prior |-> "absent",
     gitconfig |-> [name |-> "Alice", email |-> "alice@example.org"],
     git |-> { FALSE }]
FstabFamily == { [BaseConfig EXCEPT !.fstabs = S] : S \in SUBSET FstabUniverse }
ArtifactFamily ==
    { [BaseConfig EXCEPT !.artifacts = A, !.prior = pr] :
        A \in SUBSET ARTIFACTS, pr \in Priors }
ScriptFamily ==
    { [BaseConfig EXCEPT !.scripts = S, !.prior = pr] :
        S \in KSubsets(ScriptUniverse, MaxScripts), pr \in { "absent", "stale" } }
GitFamily ==
    { [BaseConfig EXCEPT !.gitconfig = c, !.git = g, !.prior = pr] :
        c \in GitConfigs, g \in { { TRUE }, { TRUE, FALSE } },
        pr \in { "absent", "stale" } }
DumpConfigs == FstabFamily \cup ArtifactFamily \cup ScriptFamily \cup GitFamily

\* What is at and under final path F before the first call.
PriorFiles(prior, F) ==
    IF prior = "stale"
    THEN { F \o << "old.txt" >>, F \o << "Android.mk" >>,
           F \o << "prebuilt", "dtbo.img" >>,
           F \o << "recovery", "root", "old.rc" >>,
           F \o << "recovery", "root", "init.rc" >> }
    ELSE IF prior = "locked" THEN { F \o << "keep.txt" >> }
    ELSE IF prior = "file" THEN { F }
    ELSE {}
PriorDirs(prior, F) ==
    IF prior = "stale" THEN { git_dir(F) }
    ELSE IF prior = "empty" THEN { F }
    ELSE {}
PriorLocked(prior, F) == IF prior = "locked" THEN { F \o << "keep.txt" >> } ELSE {}
PriorRepos(prior, F) ==
    IF prior = "stale" THEN (F :> [NewRepo EXCEPT !.commits = 1]) ELSE << >>
Lock(f, L) == [q \in DOMAIN f |-> IF q \in L THEN [f[q] EXCEPT !.locked = TRUE] ELSE f[q]]
StaleFiles(S) == [q \in S |-> << "stale" >>]

Device1 == [manufacturer |-> "m1", codename |-> "c1"]
Out == << "out" >>

InitDump ==
    /\ \E cfg \in DumpConfigs :
         LET F == Out \o << Device1.manufacturer, Device1.codename >>
             input == { BootImage, Ramdisk(1) \o << "default.prop" >> }
                          \cup { ArtifactPath(1, a) : a \in cfg.artifacts }
                          \cup cfg.fstabs
                          \cup { q \in cfg.scripts : Name(q) # "dir.rc" }
             dirs == { Ramdisk(1) } \cup { q \in cfg.scripts : Name(q) = "dir.rc" }
         IN  /\ fs = Lock(MkFs(SrcFiles(input) @@ StaleFiles(PriorFiles(cfg.prior, F)),
                               dirs \cup PriorDirs(cfg.prior, F)),
                          PriorLocked(cfg.prior, F))
             /\ repos = PriorRepos(cfg.prior, F)
             /\ gitconfig = cfg.gitconfig
             /\ unpacked = [p \in Procs |->
                    IF p = 1 THEN Info(1, cfg.artifacts) ELSE NoInfo]
             /\ args = [p \in Procs |->
                    IF p = 1 THEN [output_path |-> Out, git |-> cfg.git,
                                   times |-> MaxRuns]
                    ELSE NoArgs]
    /\ image = [p \in Procs |-> IF p = 1 THEN BootImage ELSE None]
    /\ props_device = [p \in Procs |-> IF p = 1 THEN Device1 ELSE NoDevice]
    /\ fs0 = fs
    /\ ProcInit({1})

NextDump ==
    \E p \in Procs :
        \/ CheckImage(p)
        \/ SelectRamdisk(p)
        \/ LocateBuildProp(p)
        \/ MakeDeviceInfo(p)
        \/ LocateFstab(p)
        \/ CollectInitRcs(p)
        \/ DumpBegin(p)
        \/ DumpRmtree(p)
        \/ DumpMkdir(p)
        \/ DumpRender(p)
        \/ DumpChmod(p)
        \/ DumpCopyPrebuilt(p)
        \/ DumpWriteFstab(p)
        \/ DumpCopyInitRcs(p)
        \/ DumpReturn(p)
        \/ DumpGitInit(p)
        \/ DumpGitIdentity(p)
        \/ DumpGitCommit(p)
        \/ AddStale(p)

SpecDump == InitDump /\ [][NextDump]_vars

(***************************************************************************)
(* Initial states of the concurrent runs: two constructed DeviceTrees,     *)
(* each of its own image, and one dump_to_folder call on each, the two     *)
(* with distinct final paths.  The second may be given an output path      *)
(* inside the first's tree.                                                *)
(***************************************************************************)
Device2 == [manufacturer |-> "m1", codename |-> "c2"]
ConcTargets ==
    [output_path : { Out, Out \o << "m1", "c1" >> }, device : { Device1, Device2 }]
TargetPath(t) == t.output_path \o << t.device.manufacturer, t.device.codename >>
ConcInput(p) ==
    { Ramdisk(p) \o << "default.prop" >>, Ramdisk(p) \o << "etc", "recovery.fstab" >>,
      Ramdisk(p) \o << "ueventd.rc" >>, ArtifactPath(p, "kernel") }

InitConc ==
    /\ \E t \in { u \in [Procs -> ConcTargets] :
                        /\ u[1].output_path = Out
                        /\ TargetPath(u[1]) # TargetPath(u[2]) },
          prior \in { "absent", "stale" } :
         LET finals == { TargetPath(t[p]) : p \in Procs }
         IN  /\ fs = MkFs(SrcFiles(UNION { ConcInput(p) : p \in Procs })
                            @@ StaleFiles(UNION { PriorFiles(prior, F) : F \in finals }),
                          UNION { PriorDirs(prior, F) : F \in finals })
             /\ repos = [F \in { G \in finals : prior = "stale" } |->
                            [NewRepo EXCEPT !.commits = 1]]
             /\ props_device = [p \in Procs |-> t[p].device]
             /\ device_info = [p \in Procs |-> t[p].device]
             /\ args = [p \in Procs |->
                    [output_path |-> t[p].output_path, git |-> { FALSE }, times |-> 1]]
    /\ gitconfig = [name |-> Unset, email |-> Unset]
    /\ image = [p \in Procs |-> << WorkDir(p), "boot.img" >>]
    /\ unpacked = [p \in Procs |-> Info(p, { "kernel" })]
    /\ image_info = unpacked
    /\ ramdisk_path = [p \in Procs |-> select_ramdisk(fs, image_info[p])]
    /\ search_locations = [p \in Procs |->
            get_extended_buildprop_locations(fs, ramdisk_path[p])]
    /\ build_prop = [p \in Procs |-> import_props_loop(fs, search_locations[p], 1)]
    /\ build_prop_found = [p \in Procs |-> build_prop[p] # << >>]
    /\ logged = [p \in Procs |-> << >>]
    /\ fstab = [p \in Procs |-> first_fstab(fs, fstab_candidates(ramdisk_path[p]), 1)]
    /\ init_rcs = [p \in Procs |-> << Ramdisk(p) \o << "ueventd.rc" >> >>]
    /\ pc = [p \in Procs |-> "constructed"]
    /\ error = [p \in Procs |-> ""]
    /\ device_tree_folder = [p \in Procs |-> None]
    /\ git = [p \in Procs |-> FALSE]
    /\ idx = [p \in Procs |-> 0]
    /\ git_identity = [p \in Procs |-> << NoneStr, NoneStr >>]
    /\ calls = [p \in Procs |-> 0]
    /\ stale = 0
    /\ fs0 = fs

NextConc ==
    \E p \in Procs :
        \/ DumpBegin(p)
        \/ DumpRmtree(p)
        \/ DumpMkdir(p)
        \/ DumpRender(p)
        \/ DumpChmod(p)
        \/ DumpCopyPrebuilt(p)
        \/ DumpWriteFstab(p)
        \/ DumpCopyInitRcs(p)
        \/ DumpReturn(p)

SpecConc == InitConc /\ [][NextConc]_vars

(***************************************************************************)
(* The properties of the construction (SpecCtor).                          *)
(***************************************************************************)
MinOf(S) == CHOOSE i \in S : \A j \in S : i <= j
MaxOf(S) == CHOOSE i \in S : \A j \in S : i >= j
\* The property search of p has run.
Searched(p) ==
    /\ pc[p] \notin { "idle", "start", "ramdisk", "build_prop" }
    /\ pc[p] = "failed" =>
          error[p] \in { "No build.prop file found in any of the searched locations",
                         "fstab not found" }
\* The positions of search_locations at which a regular file exists.
ExistingCandidates(p) ==
    { i \in 1..Len(search_locations[p]) : is_file(fs, search_locations[p][i]) }
RamdiskNative(p) ==
    << ramdisk_path[p] \o << "default.prop" >>,
       ramdisk_path[p] \o << "prop.default" >>,
       ramdisk_path[p] \o << "system", "build.prop" >>,
       ramdisk_path[p] \o << "vendor", "build.prop" >>,
       ramdisk_path[p] \o << "system", "etc", "build.prop" >>,
       ramdisk_path[p] \o << "vendor", "etc", "build.prop" >> >>

\* C1: the property file that is loaded is the existing candidate with the
\* smallest index in the list of get_extended_buildprop_locations, whose first
\* entries are the six ramdisk-relative locations: of two existing candidates
\* the earlier one is used, and none is loaded only when none exists.
C1_FirstMatchWins ==
    \A p \in Procs : Searched(p) =>
        LET E == ExistingCandidates(p)
        IN  /\ SubSeq(search_locations[p], 1, 6) = RamdiskNative(p)
            /\ build_prop_found[p] = (E # {})
            /\ IF E = {} THEN build_prop[p] = << >>
               ELSE build_prop[p] = << search_locations[p][MinOf(E)] >>

\* A ramdisk-relative candidate and a different dump-root candidate both exist,
\* and the ramdisk-relative one was loaded.
C1_Witness ==
    \E p \in Procs :
        /\ Searched(p)
        /\ \E i, j \in ExistingCandidates(p) :
              /\ i <= 6 /\ 6 < j
              /\ search_locations[p][i] # search_locations[p][j]
              /\ build_prop[p] = << search_locations[p][i] >>

\* The only existing candidate file, when there is exactly one and it is not
\* among the first `before' entries of the list.
OnlyBeyond(p, before) ==
    LET files == { search_locations[p][i] : i \in ExistingCandidates(p) }
    IN  IF Cardinality(files) = 1
             /\ \A i \in ExistingCandidates(p) : i > before
        THEN files ELSE {}

\* C2: import_props is called at most once in a construction and exactly once
\* in one that succeeds (the property sets of several files are never merged);
\* when the only existing property file is at a dump-root fallback location,
\* it is the one file read.
C2_AtMostOneRead ==
    \A p \in Procs :
        /\ Len(build_prop[p]) <= 1
        /\ pc[p] = "constructed" => Len(build_prop[p]) = 1
        /\ Searched(p) =>
              \A q \in OnlyBeyond(p, 6) : build_prop[p] = << q >>

\* A construction succeeded with its only property file at a location of the
\* last dump directory tried (the grandparent of the ramdisk's parent).
C2_Witness ==
    \E p \in Procs :
        /\ pc[p] = "constructed"
        /\ Len(search_locations[p]) = 57
        /\ \E q \in OnlyBeyond(p, 40) : build_prop[p] = << q >>

\* C7: a construction that fails for a missing property file reports every
\* candidate of the property search, and one that fails for a missing
\* recovery.fstab reports the three recovery.fstab candidates.
C7_FailureReportsAttempted ==
    \A p \in Procs : pc[p] = "failed" =>
        /\ error[p] = "No build.prop file found in any of the searched locations"
              => logged[p] = search_locations[p] /\ Len(logged[p]) >= 6
        /\ error[p] = "fstab not found"
              => logged[p] = << ramdisk_path[p] \o << "etc", "recovery.fstab" >>,
                                ramdisk_path[p] \o << "system", "etc", "recovery.fstab" >>,
                                ramdisk_path[p] \o << "vendor", "etc", "recovery.fstab" >> >>

(***************************************************************************)
(* The properties of the generation (SpecDump).                            *)
(***************************************************************************)
\* The three recovery.fstab candidates of p, and the positions at which a
\* regular file exists.
ThreeFstabs(p) ==
    << ramdisk_path[p] \o << "etc", "recovery.fstab" >>,
       ramdisk_path[p] \o << "system", "etc", "recovery.fstab" >>,
       ramdisk_path[p] \o << "vendor", "etc", "recovery.fstab" >> >>
ExistingFstabs(p) == { i \in 1..3 : is_file(fs, ThreeFstabs(p)[i]) }
\* Positions of a DeviceTree whose construction has found its recovery.fstab.
AfterFstab ==
    { "init_rcs", "constructed", "rmtree", "mkdir", "render", "chmod", "prebuilt",
      "fstab_out", "init_rcs_out", "git_init", "git_identity", "git_commit", "done" }

\* C3: the partition table is generated from the first of etc/recovery.fstab,
\* system/etc/recovery.fstab and vendor/etc/recovery.fstab under the selected
\* ramdisk root that is a regular file; when none of the three is one, the
\* construction fails, whatever other recovery.fstab exists: no DeviceTree is
\* produced, dump_to_folder never runs, and the file system stays as it was.
C3_FstabThreeCandidates ==
    \A p \in Procs : ramdisk_path[p] # None =>
        LET E == ExistingFstabs(p)
        IN  /\ fstab[p] # None => E # {} /\ fstab[p] = ThreeFstabs(p)[MinOf(E)]
            /\ pc[p] \in AfterFstab => fstab[p] # None
            /\ E = {} => /\ pc[p] \notin AfterFstab
                         /\ calls[p] = 0
                         /\ fs = fs0 /\ repos = << >>
            /\ pc[p] = "failed" /\ error[p] = "fstab not found" => E = {}

\* The construction failed for the missing partition table although a
\* recovery.fstab exists at another location (the ramdisk root, or the etc
\* directory beside the ramdisk).
C3_Witness ==
    \E p \in Procs :
        /\ pc[p] = "failed" /\ error[p] = "fstab not found"
        /\ is_file(fs, ramdisk_path[p] \o << "recovery.fstab" >>)
        /\ is_file(fs, Parent(ramdisk_path[p]) \o << "etc", "recovery.fstab" >>)

\* What a tree shows: for each path under F, its kind and its content.
TreeView(f, F) ==
    [q \in { r \in DOMAIN f : IsPrefix(F, r) } |-> << f[q].kind, f[q].content >>]
\* The position in init_rcs of the last script named n.
LastNamed(p, n) == MaxOf({ i \in 1..Len(init_rcs[p]) : Name(init_rcs[p][i]) = n })
\* The names of the generated files, and of the present artifacts in prebuilt.
GeneratedNames(p) ==
    { "Android.bp", "Android.mk", "AndroidProducts.mk", "BoardConfig.mk",
      "device.mk", "extract-files.sh", "omni_" \o device_info[p].codename \o ".mk",
      "README.md", "setup-makefiles.sh", "vendorsetup.sh" }
GeneratedContent(p, n) ==
    IF n = "Android.bp" THEN render_template(p, n, "//")
    ELSE IF n = "omni_" \o device_info[p].codename \o ".mk"
         THEN render_template(p, "omni_device.mk", "#")
    ELSE render_template(p, n, "#")
PresentPrebuilt(p) ==
    (IF image_info[p].kernel # None THEN { "kernel" } ELSE {})
        \cup (IF image_info[p].dt # None THEN { "dt.img" } ELSE {})
        \cup (IF image_info[p].dtb # None THEN { "dtb.img" } ELSE {})
        \cup (IF image_info[p].dtbo # None THEN { "dtbo.img" } ELSE {})
PrebuiltSource(p, n) ==
    IF n = "kernel" THEN image_info[p].kernel
    ELSE IF n = "dt.img" THEN image_info[p].dt
    ELSE IF n = "dtb.img" THEN image_info[p].dtb
    ELSE image_info[p].dtbo
ScriptNames(p) == { Name(init_rcs[p][i]) : i \in 1..Len(init_rcs[p]) }

\* The tree one dump_to_folder of p without git generates at F.
ExpectedView(p, F) ==
    LET dirs == { F, F \o << "prebuilt" >>, F \o << "recovery" >>,
                  F \o << "recovery", "root" >> }
        generated == { F \o << n >> : n \in GeneratedNames(p) }
        prebuilt == { F \o << "prebuilt", n >> : n \in PresentPrebuilt(p) }
        scripts == { F \o << "recovery", "root", n >> : n \in ScriptNames(p) }
        table == F \o << "recovery.fstab" >>
    IN  [q \in dirs \cup generated \cup prebuilt \cup scripts \cup { table } |->
            IF q \in dirs THEN << "dir", << >> >>
            ELSE IF q \in generated THEN << "file", GeneratedContent(p, Name(q)) >>
            ELSE IF q \in prebuilt
                 THEN << "file", SrcContent(PrebuiltSource(p, Name(q))) >>
            ELSE IF q \in scripts
                 THEN << "file", SrcContent(init_rcs[p][LastNamed(p, Name(q))]) >>
            ELSE << "file", << "twrp format of" >> \o fstab[p] >>]

\* C4: after a successful dump_to_folder without git, whatever was at the
\* final path before (nothing, an empty directory, the files of an earlier
\* run or of other programs), the files under the final path and their
\* content are exactly those this run generated: a second run leaves the tree
\* of the first, and nothing older survives.
C4_DumpIdempotent ==
    \A p \in Procs : pc[p] = "done" /\ ~git[p] =>
        TreeView(fs, device_tree_folder[p]) = ExpectedView(p, device_tree_folder[p])

\* A second run ended, over a tree that held stale files before the first run
\* and got another one between the runs.
C4_Witness ==
    \E p \in Procs :
        /\ pc[p] = "done" /\ ~git[p] /\ calls[p] = 2 /\ stale = 1
        /\ exists(fs0, final_path(p) \o << "old.txt" >>)

\* C5 as claimed: with git on, each dump_to_folder on a path adds one commit
\* to the repository there: one after the first run on a fresh path, two
\* after the second.
C5_CommitPerRun ==
    \A p \in Procs :
        pc[p] = "done" /\ args[p].git = { TRUE } /\ ~exists(fs0, final_path(p))
            => /\ final_path(p) \in DOMAIN repos
               /\ repos[final_path(p)].commits = calls[p]

\* C5 as amended: after every successful dump_to_folder with git on, the
\* repository at the final path holds exactly one commit: a run deletes the
\* repository an earlier run left there with the rest of the tree.
C5_OneCommitAfterEachRun ==
    \A p \in Procs : pc[p] = "done" /\ git[p] =>
        /\ device_tree_folder[p] \in DOMAIN repos
        /\ repos[device_tree_folder[p]].commits = 1
        /\ is_dir(fs, git_dir(device_tree_folder[p]))

\* A second run with git on ended, after a first one with git on.
C5_Witness ==
    \E p \in Procs :
        /\ pc[p] = "done" /\ git[p] /\ calls[p] = 2 /\ args[p].git = { TRUE }
        /\ repos[device_tree_folder[p]].commits = 1

\* C6: the fallback identity is written if and only if the configured
\* user.name or user.email is unset, and an identity field that was set before
\* the step has the same value after it.
C6_ConfiguredIdentityKept ==
    \A p \in Procs : pc[p] \in { "git_commit", "done" } /\ git[p] =>
        LET repo == repos[device_tree_folder[p]]
        IN  /\ (repo.name = FALLBACK_NAME /\ repo.email = FALLBACK_EMAIL)
                  <=> (gitconfig.name = Unset \/ gitconfig.email = Unset)
            /\ gitconfig.name # Unset
                  => config_value(repo, gitconfig, "name") = gitconfig.name
            /\ gitconfig.email # Unset
                  => config_value(repo, gitconfig, "email") = gitconfig.email

\* C8: after a successful dump_to_folder, prebuilt is a directory whose
\* entries are kernel, dt.img, dtb.img and dtbo.img for exactly the artifacts
\* image_info has, each with its artifact's content.
C8_PrebuiltExactlyPresent ==
    \A p \in Procs : pc[p] = "done" =>
        /\ is_dir(fs, prebuilt_path(p))
        /\ { Name(q) : q \in iterdir(fs, prebuilt_path(p)) } = PresentPrebuilt(p)
        /\ \A n \in PresentPrebuilt(p) :
              /\ is_file(fs, prebuilt_path(p) \o << n >>)
              /\ fs[prebuilt_path(p) \o << n >>].content
                    = fs[PrebuiltSource(p, n)].content

\* A dump_to_folder succeeded for an image with none of the four artifacts,
\* over a tree that held a stale prebuilt/dtbo.img: prebuilt is empty.
C8_Witness ==
    \E p \in Procs :
        /\ pc[p] = "done"
        /\ PresentPrebuilt(p) = {}
        /\ exists(fs0, final_path(p) \o << "prebuilt", "dtbo.img" >>)
        /\ is_dir(fs, prebuilt_path(p)) /\ iterdir(fs, prebuilt_path(p)) = {}

\* The entries of the three script directories of p that are scripts.
ScriptsOnDisk(p) ==
    { q \in DOMAIN fs :
        /\ \/ Parent(q) = ramdisk_path[p]
           \/ Parent(q) = ramdisk_path[p] \o << "system", "etc", "init" >>
           \/ Parent(q) = ramdisk_path[p] \o << "vendor", "etc", "init" >>
        /\ EndsWith(Name(q), ".rc")
        /\ Name(q) # "init.rc" }
\* The place of a script's directory in the order the directories are scanned.
ScanOrder(p, q) ==
    IF Parent(q) = ramdisk_path[p] THEN 1
    ELSE IF Parent(q) = ramdisk_path[p] \o << "system", "etc", "init" >> THEN 2
    ELSE 3

\* C9 as claimed: after a successful dump_to_folder every script of the three
\* directories (name ending in .rc, not init.rc) is in recovery/root under
\* its own name with its own content, and init.rc is not there.
C9_EveryScriptOwnContent ==
    \A p \in Procs : pc[p] = "done" =>
        /\ \A q \in ScriptsOnDisk(p) :
              /\ is_file(fs, recovery_root_path(p) \o << Name(q) >>)
              /\ fs[recovery_root_path(p) \o << Name(q) >>].content = fs[q].content
        /\ ~exists(fs, recovery_root_path(p) \o << "init.rc" >>)

\* C9 as amended: after a successful dump_to_folder the entries of
\* recovery/root are the names of the scripts of the three directories, each
\* with the content of the script of that name in the last of the directories
\* (ramdisk root, system/etc/init, vendor/etc/init) that has one: a script
\* whose name no other directory has is there with its own content, and
\* init.rc is not there.
C9_ScriptsLastDirectoryWins ==
    \A p \in Procs : pc[p] = "done" =>
        /\ { init_rcs[p][i] : i \in 1..Len(init_rcs[p]) } = ScriptsOnDisk(p)
        /\ { Name(q) : q \in iterdir(fs, recovery_root_path(p)) }
              = { Name(q) : q \in ScriptsOnDisk(p) }
        /\ \A q \in ScriptsOnDisk(p) :
              (\A r \in ScriptsOnDisk(p) :
                    Name(r) = Name(q) => ScanOrder(p, r) <= ScanOrder(p, q))
                => /\ is_file(fs, recovery_root_path(p) \o << Name(q) >>)
                   /\ fs[recovery_root_path(p) \o << Name(q) >>].content
                         = fs[q].content
        /\ ~exists(fs, recovery_root_path(p) \o << "init.rc" >>)

\* A dump_to_folder succeeded for a ramdisk with a script of the same name in
\* two of the directories and an init.rc, over a tree that held a stale
\* recovery/root/init.rc.
C9_Witness ==
    \E p \in Procs :
        /\ pc[p] = "done"
        /\ \E q, r \in ScriptsOnDisk(p) : q # r /\ Name(q) = Name(r)
        /\ exists(fs0, final_path(p) \o << "recovery", "root", "init.rc" >>)

(***************************************************************************)
(* The properties of two concurrent dump_to_folder calls (SpecConc).       *)
(***************************************************************************)
\* Neither path is the other or lies inside the other.
Apart(F, G) == ~IsPrefix(F, G) /\ ~IsPrefix(G, F)
\* No call has failed, and each DeviceTree whose call has returned has at its
\* final path the tree the call generates when it runs alone.
EachAsAlone ==
    \A p \in Procs :
        /\ pc[p] # "failed"
        /\ pc[p] = "done" =>
              TreeView(fs, final_path(p)) = ExpectedView(p, final_path(p))

\* C10 as claimed: two dump_to_folder calls with distinct final paths do not
\* interfere, whatever the interleaving of their steps: each succeeds and ends
\* with the tree it produces when run alone.
C10_DistinctPathsSafe ==
    final_path(1) # final_path(2) => EachAsAlone

\* C10 as amended: two dump_to_folder calls whose final paths are distinct and
\* of which neither lies inside the other do not interfere, whatever the
\* interleaving of their steps: each succeeds and ends with the tree it
\* produces when run alone.
C10_SeparatePathsSafe ==
    Apart(final_path(1), final_path(2)) => EachAsAlone

\* Both calls have returned, their final paths are in the same manufacturer
\* directory, and both paths held stale files before.
C10_Witness ==
    /\ Apart(final_path(1), final_path(2))
    /\ Parent(final_path(1)) = Parent(final_path(2))
    /\ \A p \in Procs :
          /\ pc[p] = "done"
          /\ exists(fs0, final_path(p) \o << "old.txt" >>)

====
